---- MODULE Spec2Model ----
(***************************************************************************)
(* Command-line deserializer of bevy_dev_tools (cli_deserialize.rs).       *)
(*                                                                         *)
(* Text is a sequence of one-character strings.  The nom combinators the   *)
(* source uses are operators returning [ok, rest, out]; the two serde      *)
(* Deserializer implementations and their MapAccess helpers are actions.   *)
(***************************************************************************)
EXTENDS Integers, Sequences, FiniteSets

VARIABLES
    mode,        \* which entry point the caller built: "typed" | "dynamic"
    input,       \* the line handed to the entry point
    registry,    \* CliDeserializer.type_registration, in iteration order
    pc,          \* position of the decode call
    tinput,      \* TypedCliDeserializer.input
    fields,      \* the `fields` argument of deserialize_struct
    args,        \* tokens many0(parse_argument) produced
    rest,        \* input parse_arguments left unconsumed (dropped by the caller)
    writes,      \* the map.insert calls of parse_arguments, in order
    values,      \* CliMapVisitor.values
    keys,        \* CliMapVisitor.keys
    index,       \* CliMapVisitor.index
    type_path,   \* SingleMapDeserializer.type_path
    dargs,       \* SingleMapDeserializer.args
    yielded,     \* what the MapAccess calls returned to the visitor, in order
    outcome,     \* "running" | "ok" | "err" | "panic"
    error,       \* message of the error value when outcome = "err"
    calls,       \* the Deserializer methods invoked so far, in order
    src          \* how Init drew the line (not program state)

vars == <<mode, input, registry, pc, tinput, fields, args, rest, writes, values,
          keys, index, type_path, dargs, yielded, outcome, error, calls, src>>

(***************************************************************************)
(* Bounds of the model.                                                    *)
(***************************************************************************)
MaxChars == 4        \* longest line drawn character by character
MaxTokens == 3       \* most tokens of a line drawn token by token
MaxFields == 2       \* longest field schema
MaxDynTokens == 1    \* most arguments after the type name of a dynamic line
MaxWrites == 4       \* most tokens of a line that writes fields repeatedly

(***************************************************************************)
(* Characters and text.                                                    *)
(***************************************************************************)
SP == " "
TAB == "\t"
NL == "\n"
DQ == "\""
LP == "("
RP == ")"
DASH == "-"

\* F applied to the value of e, with e evaluated once.
Bind(e, F(_)) == CHOOSE y \in {F(x) : x \in {e}} : TRUE

Take(s, n) == SubSeq(s, 1, n)
Drop(s, n) == SubSeq(s, n + 1, Len(s))

\* Length of the longest prefix of s whose characters all lie outside stop.
LenWhileNotIn(s, stop) ==
    IF \E i \in 1..Len(s) : s[i] \in stop
    THEN (CHOOSE i \in 1..Len(s) :
              s[i] \in stop /\ \A j \in 1..(i - 1) : s[j] \notin stop) - 1
    ELSE Len(s)

\* Length of the longest prefix of s whose characters all lie in set.
LenWhileIn(s, set) ==
    IF \E i \in 1..Len(s) : s[i] \notin set
    THEN (CHOOSE i \in 1..Len(s) :
              s[i] \notin set /\ \A j \in 1..(i - 1) : s[j] \in set) - 1
    ELSE Len(s)

\* str::to_lowercase on the letters the model uses.
LowerChar(c) ==
    CASE c = "A" -> "a"
      [] c = "B" -> "b"
      [] c = "X" -> "x"
      [] OTHER -> c

to_lowercase(s) == [i \in 1..Len(s) |-> LowerChar(s[i])]

(***************************************************************************)
(* nom combinators, complete flavour.                                      *)
(***************************************************************************)
Failed == [ok |-> FALSE, rest |-> <<>>, out |-> <<>>]
Parsed(r, o) == [ok |-> TRUE, rest |-> r, out |-> o]

\* space0: zero or more spaces and tabs; never fails.
space0(s) ==
    Bind(LenWhileIn(s, {SP, TAB}), LAMBDA n : Parsed(Drop(s, n), Take(s, n)))

\* take_while1(|c| c is outside stop) and is_not(stop): at least one character.
take_while1(s, stop) ==
    Bind(LenWhileNotIn(s, stop), LAMBDA n :
        IF n = 0 THEN Failed ELSE Parsed(Drop(s, n), Take(s, n)))

\* recognize(delimited(char(open), is_not(close), char(close)))
recognize_delimited(s, open, close) ==
    IF s = <<>> \/ Head(s) # open
    THEN Failed
    ELSE Bind(LenWhileNotIn(Tail(s), {close}), LAMBDA n :
             IF n = 0 \/ n = Len(s) - 1
             THEN Failed
             ELSE Parsed(Drop(s, n + 2), Take(s, n + 2)))

is_not_space_stop == {SP, TAB, NL}

parse_quoted_string(s) == recognize_delimited(s, DQ, DQ)

parse_ron_value(s) == recognize_delimited(s, LP, RP)

\* alt((parse_quoted_string, parse_ron_value, take_while1(is_not_space)))
\* A value parser that knows barewords only.
bareword_value(s) == take_while1(s, is_not_space_stop)

alt_value(s) ==
    Bind(parse_quoted_string(s), LAMBDA q :
        IF q.ok
        THEN q
        ELSE Bind(parse_ron_value(s), LAMBDA r :
                 IF r.ok THEN r ELSE take_while1(s, is_not_space_stop)))

\* preceded(space0, alt(...))
parse_value(s) == Bind(space0(s).rest, LAMBDA s1 : alt_value(s1))

\* One element of many0's output: the (key, Option value) pair; the branch of
\* parse_argument that built it (dashed: the "--" branch); and where its last
\* slice lies in the input (after: the characters that follow the slice).
Token(k, hv, v, d, n) ==
    [key |-> k, has_value |-> hv, value |-> v, dashed |-> d, after |-> n]

starts_with_dashes(s) == Len(s) >= 2 /\ s[1] = DASH /\ s[2] = DASH

key_stop == {SP}

\* The "--" branch: preceded(tag("--"), take_while1(|c| c != ' ')), then
\* opt(preceded(space0, parse_value)).
parse_keyed(s1) ==
    Bind(take_while1(Drop(s1, 2), key_stop), LAMBDA k :
        IF ~k.ok
        THEN Failed
        ELSE Bind(parse_value(space0(k.rest).rest), LAMBDA v :
                 IF v.ok
                 THEN Parsed(v.rest, Token(k.out, TRUE, v.out, TRUE, Len(v.rest)))
                 ELSE Parsed(k.rest, Token(k.out, FALSE, <<>>, TRUE, Len(k.rest)))))

\* The other branch: the value is returned in the key's place, with None.
parse_positional(s1) ==
    Bind(parse_value(s1), LAMBDA v :
        IF ~v.ok
        THEN Failed
        ELSE Parsed(v.rest, Token(v.out, FALSE, <<>>, FALSE, Len(v.rest))))

parse_argument(s) ==
    Bind(space0(s).rest, LAMBDA s1 :
        IF starts_with_dashes(s1) THEN parse_keyed(s1) ELSE parse_positional(s1))

\* many0(parse_argument): stops at the first error and keeps what it has; an
\* element parser that succeeds without consuming is an error of many0 itself.
RECURSIVE many0(_)
many0(s) ==
    Bind(parse_argument(s), LAMBDA r :
        IF ~r.ok
        THEN Parsed(s, <<>>)
        ELSE IF Len(r.rest) = Len(s)
        THEN Failed
        ELSE Bind(many0(r.rest), LAMBDA more :
                 IF ~more.ok
                 THEN Failed
                 ELSE Parsed(more.rest, <<r.out>> \o more.out)))


(***************************************************************************)
(* parse_arguments: tokenize, then bind tokens to field names.             *)
(***************************************************************************)
EmptyMap == [k \in {} |-> <<>>]

\* An insert that keeps the value a key already has.
insert_if_absent(m, k, v) ==
    [x \in (DOMAIN m) \cup {k} |-> IF x \in DOMAIN m THEN m[x] ELSE v]

\* HashMap::insert: a later insert under the same key replaces the value.
Insert(m, k, v) == [x \in (DOMAIN m) \cup {k} |-> IF x = k THEN v ELSE m[x]]

\* A cursor that never advances.
stuck_positional_index(i) == i

\* positional_index += 1
next_positional_index(i) == i + 1

\* A loop that ignores the keys and binds every token by position.
RECURSIVE resolve_by_position(_, _, _, _, _)
resolve_by_position(toks, flds, pi, m, w) ==
    IF toks = <<>>
    THEN [status |-> "ok", map |-> m, writes |-> w]
    ELSE IF pi >= Len(flds)
    THEN [status |-> "panic", map |-> m, writes |-> w]
    ELSE Bind(IF Head(toks).has_value THEN Head(toks).value ELSE Head(toks).key,
              LAMBDA v :
                  resolve_by_position(Tail(toks), flds, pi + 1,
                      Insert(m, flds[pi + 1], v),
                      Append(w, [key |-> flds[pi + 1], value |-> v])))

\* The for loop of parse_arguments over toks, from positional_index pi with
\* the map m and the inserts w made so far.  fields[positional_index] past the
\* end of the slice panics.
RECURSIVE resolve(_, _, _, _, _)
resolve(toks, flds, pi, m, w) ==
    IF toks = <<>>
    THEN [status |-> "ok", map |-> m, writes |-> w]
    ELSE Bind(Head(toks), LAMBDA t :
             IF t.has_value
             THEN Bind(<<Insert(m, t.key, t.value),
                         Append(w, [key |-> t.key, value |-> t.value])>>,
                       LAMBDA mw : resolve(Tail(toks), flds, pi, mw[1], mw[2]))
             ELSE IF pi >= Len(flds)
             THEN [status |-> "panic", map |-> m, writes |-> w]
             ELSE Bind(<<Insert(m, flds[pi + 1], t.key),
                         Append(w, [key |-> flds[pi + 1], value |-> t.key]),
                         next_positional_index(pi)>>,
                       LAMBDA mw : resolve(Tail(toks), flds, mw[3], mw[1], mw[2])))

parse_arguments(s, flds) ==
    Bind(many0(s), LAMBDA p :
        IF ~p.ok
        THEN [status |-> "err", rest |-> s, args |-> <<>>, map |-> EmptyMap,
              writes |-> <<>>]
        ELSE Bind(resolve(p.out, flds, 0, EmptyMap, <<>>), LAMBDA r :
                 [status |-> r.status, rest |-> p.rest, args |-> p.out,
                  map |-> r.map, writes |-> r.writes]))


(***************************************************************************)
(* The lines, schemas and registries decode calls are made with.           *)
(***************************************************************************)
RECURSIVE Flatten(_)
Flatten(ss) == IF ss = <<>> THEN <<>> ELSE Head(ss) \o Flatten(Tail(ss))

SeqsUpTo(S, n) == UNION {[1..k -> S] : k \in 0..n}

Perms(S) ==
    {p \in [1..Cardinality(S) -> S] :
        \A i, j \in 1..Cardinality(S) : p[i] = p[j] => i = j}

\* Field names; a schema is a prefix of this list.
FieldNames == << <<"a">>, <<"b">>, <<"c">>, <<"d">> >>
Schema(n) == SubSeq(FieldNames, 1, n)
Schemas == {Schema(n) : n \in 0..MaxFields}

\* Lines drawn character by character.
Alphabet == {"x", SP, TAB, NL, DQ, LP, RP, DASH}
CharLines == SeqsUpTo(Alphabet, MaxChars)

\* Lines drawn argument by argument, each followed by a space.
ArgTexts ==
    { <<"x">>,
      <<DQ, "x", SP, "x", DQ>>,
      <<LP, "x", SP, "x", RP>>,
      <<LP, "x">>,
      <<DASH, DASH, "a">>,
      <<DASH, DASH, "a", SP, "x">>,
      <<DASH, DASH, "b", SP, DQ, "x", SP, "x", DQ>> }
ArgItems == {t \o <<SP>> : t \in ArgTexts}
ArgLines(n) == {Flatten(items) : items \in SeqsUpTo(ArgItems, n)}

\* Lines of keyed arguments only: `--field value` for every field of the
\* schema once, in the order perm, separated by one space.
ValueTexts ==
    { <<"x">>, <<"y">>, <<DQ, "x", SP, "y", DQ>>, <<LP, "x", SP, ":", "y", RP>> }
KeyedArg(f, v) == <<DASH, DASH>> \o f \o <<SP>> \o v
RECURSIVE KeyedLine(_, _, _)
KeyedLine(flds, perm, vals) ==
    IF perm = <<>>
    THEN <<>>
    ELSE KeyedArg(flds[Head(perm)], vals[Head(perm)])
         \o (IF Len(perm) > 1 THEN <<SP>> ELSE <<>>)
         \o KeyedLine(flds, Tail(perm), vals)

\* Registrations: ident is the short type name (has_ident FALSE: a type whose
\* type_path_table has none), type_path the full path, fields the schema the
\* registration's struct info lists.
\* Lines whose tokens write the same fields more than once, by key and by
\* position, with texts that tell the writes apart.
WriteTexts ==
    { <<"x">>, <<"y">>,
      KeyedArg(<<"a">>, <<"x">>), KeyedArg(<<"a">>, <<"z">>),
      KeyedArg(<<"b">>, <<"y">>) }
WriteItems == {t \o <<SP>> : t \in WriteTexts}
WriteLines == {Flatten(items) : items \in SeqsUpTo(WriteItems, MaxWrites)}

Registration(hi, id, tp, n) ==
    [has_ident |-> hi, ident |-> id, type_path |-> tp, fields |-> Schema(n)]
RegAb == Registration(TRUE, <<"A", "b">>, "game::Ab", 1)
RegaB == Registration(TRUE, <<"a", "B">>, "tools::aB", MaxFields)
RegAnon == Registration(FALSE, <<>>, "(x, x)", 0)
Registries ==
    { <<>>, <<RegAnon>>, <<RegAb, RegaB>>, <<RegaB, RegAnon, RegAb>> }

\* The first run of a dynamic line, and what follows it.
Separators == { <<SP>>, <<TAB>> }
TypeNames == { <<>>, <<"a", "b">>, <<"A", "B">>, <<"A", "b">>, <<"x">> }
DynTails ==
    {<<>>} \cup {sep \o l : sep \in Separators, l \in ArgLines(MaxDynTokens)}


(***************************************************************************)
(* Initial states: a deserializer built by from_str, nothing decoded yet.  *)
(***************************************************************************)
NoSrc(kind) == [kind |-> kind, perm |-> <<>>, vals |-> <<>>]

InitRest ==
    /\ args = <<>>
    /\ rest = <<>>
    /\ writes = <<>>
    /\ values = EmptyMap
    /\ keys = <<>>
    /\ index = 0
    /\ type_path = ""
    /\ dargs = <<>>
    /\ yielded = <<>>
    /\ outcome = "running"
    /\ error = ""
    /\ calls = <<>>

InitTyped ==
    /\ mode = "typed"
    /\ pc = "typed_start"
    /\ registry = <<>>
    /\ \/ /\ input \in CharLines
          /\ fields \in Schemas
          /\ src = NoSrc("chars")
       \/ /\ input \in ArgLines(MaxTokens)
          /\ fields \in Schemas
          /\ src = NoSrc("args")
       \/ /\ input \in WriteLines
          /\ fields \in Schemas
          /\ src = NoSrc("writes")
       \/ \E n \in 1..MaxFields :
              \E perm \in Perms(1..n) :
                  \E vals \in [1..n -> ValueTexts] :
                      /\ fields = Schema(n)
                      /\ input = KeyedLine(fields, perm, vals)
                      /\ src = [kind |-> "keyed", perm |-> perm, vals |-> vals]
    /\ tinput = input

InitDynamic ==
    /\ mode = "dynamic"
    /\ pc = "dyn_start"
    /\ registry \in Registries
    /\ \E name \in TypeNames : \E tail \in DynTails : input = name \o tail
    /\ src = NoSrc("dynamic")
    /\ tinput = <<>>
    /\ fields = <<>>

Init == (InitTyped \/ InitDynamic) /\ InitRest

(***************************************************************************)
(* impl Deserializer for TypedCliDeserializer                              *)
(***************************************************************************)
Finish(result, message) ==
    /\ pc' = "done"
    /\ outcome' = result
    /\ error' = message

\* deserialize_struct: parse_arguments, then visitor.visit_map over a new
\* CliMapVisitor, whose keys are the map's keys in the map's iteration order.
DeserializeStruct ==
    /\ pc = "typed_start"
    /\ calls' = Append(calls, "struct")
    /\ \E r \in {parse_arguments(tinput, fields)} :
           /\ args' = r.args
           /\ rest' = r.rest
           /\ writes' = r.writes
           /\ IF r.status = "err"
              THEN /\ Finish("err", "Parse error")
                   /\ UNCHANGED <<values, keys, index>>
              ELSE IF r.status = "panic"
              THEN /\ Finish("panic", "index out of bounds")
                   /\ UNCHANGED <<values, keys, index>>
              ELSE /\ values' = r.map
                   /\ keys' \in Perms(DOMAIN r.map)
                   /\ index' = 0
                   /\ pc' = "key"
                   /\ UNCHANGED <<outcome, error>>
    /\ UNCHANGED <<mode, input, registry, tinput, fields, type_path, dargs,
                   yielded, src>>

\* Every other method forwards to deserialize_any, which is unimplemented!().
TypedForwarded == {"bool", "str", "map", "any"}

TypedDeserializeAny ==
    /\ pc = "typed_start"
    /\ \E o \in TypedForwarded : calls' = Append(calls, o)
    /\ Finish("panic", "deserialize_any not implemented")
    /\ UNCHANGED <<mode, input, registry, tinput, fields, args, rest, writes,
                   values, keys, index, type_path, dargs, yielded, src>>

(***************************************************************************)
(* impl MapAccess for CliMapVisitor                                        *)
(***************************************************************************)
Yield(kind, text) == [kind |-> kind, text |-> text]

\* A map cursor that never advances.
stuck_index(i) == i

\* self.index += 1
next_index(i) == i + 1

\* next_key_seed.  The seed's verdict on a key, and the visitor's verdict once
\* the map is exhausted, belong to the consumer: either may be an error.
NextKeySeed ==
    /\ pc = "key"
    /\ IF index < Len(keys)
       THEN \/ /\ yielded' = Append(yielded, Yield("key", keys[index + 1]))
               /\ pc' = "value"
               /\ UNCHANGED <<outcome, error>>
            \/ /\ Finish("err", "seed rejected the key")
               /\ UNCHANGED yielded
       ELSE /\ yielded' = Append(yielded, Yield("none", <<>>))
            /\ \/ IF mode = "dynamic"
                  THEN pc' = "dkey" /\ UNCHANGED <<outcome, error>>
                  ELSE Finish("ok", "")
               \/ Finish("err", "visitor rejected the map")
    /\ UNCHANGED <<mode, input, registry, tinput, fields, args, rest, writes,
                   values, keys, index, type_path, dargs, calls, src>>

\* next_value_seed: the value text goes to the embedded RON decoder, which
\* accepts or rejects it.  (ron's from_str, unwrapped here, fails only on a
\* malformed extension header or comment, which no line of the model spells.)
\* Called with the map exhausted it is an error.
NextValueSeed ==
    /\ \/ pc = "value"
       \/ pc = "key" /\ index >= Len(keys)
    /\ IF index < Len(keys)
       THEN /\ index' = next_index(index)
            /\ \/ /\ yielded' = Append(yielded, Yield("value", values[keys[index + 1]]))
                  /\ pc' = "key"
                  /\ UNCHANGED <<outcome, error>>
               \/ /\ Finish("err", "ron error")
                  /\ UNCHANGED yielded
       ELSE /\ Finish("err", "Value without a key")
            /\ UNCHANGED <<index, yielded>>
    /\ UNCHANGED <<mode, input, registry, tinput, fields, args, rest, writes,
                   values, keys, type_path, dargs, calls, src>>


(***************************************************************************)
(* impl Deserializer for CliDeserializer                                   *)
(***************************************************************************)
\* self.input.split(' ').next().unwrap()
struct_name_of(s) == Take(s, LenWhileNotIn(s, {SP}))

\* A comparison that respects letter case.
ident_equals(ident, name) == ident = name

\* ident.to_lowercase() == struct_name.to_lowercase()
ident_matches(ident, name) == to_lowercase(ident) = to_lowercase(name)

Matches(reg, name) == reg.has_ident /\ ident_matches(reg.ident, name)

\* The for loop over type_registration.iter(): the index of the first
\* registration that has an ident equal to name, 0 when there is none.
find_registration(regs, name) ==
    IF \E i \in 1..Len(regs) : Matches(regs[i], name)
    THEN CHOOSE i \in 1..Len(regs) :
             /\ Matches(regs[i], name)
             /\ \A j \in 1..(i - 1) : ~Matches(regs[j], name)
    ELSE 0

\* deserialize_map, up to the visit_map call: the leading run must not be
\* empty; registration.unwrap() panics when the loop found nothing.
deserialize_map(s, regs) ==
    Bind(struct_name_of(s), LAMBDA struct_name :
        Bind(take_while1(s, {SP}), LAMBDA split :
            IF ~split.ok
            THEN [status |-> "err", args |-> <<>>, type_path |-> ""]
            ELSE Bind(find_registration(regs, struct_name), LAMBDA found :
                     IF found = 0
                     THEN [status |-> "panic", args |-> split.rest,
                           type_path |-> ""]
                     ELSE [status |-> "ok", args |-> split.rest,
                           type_path |-> regs[found].type_path])))

DeserializeMap ==
    /\ pc = "dyn_start"
    /\ calls' = Append(calls, "map")
    /\ \E r \in {deserialize_map(input, registry)} :
           /\ dargs' = r.args
           /\ type_path' = r.type_path
           /\ IF r.status = "err"
              THEN Finish("err", "Parse error")
              ELSE IF r.status = "panic"
              THEN Finish("panic", "unwrap on None")
              ELSE pc' = "dkey" /\ UNCHANGED <<outcome, error>>
    /\ UNCHANGED <<mode, input, registry, tinput, fields, args, rest, writes,
                   values, keys, index, yielded, src>>

DynForwarded == {"bool", "str", "struct", "any"}

DynDeserializeAny ==
    /\ pc = "dyn_start"
    /\ \E o \in DynForwarded : calls' = Append(calls, o)
    /\ Finish("panic", "deserialize_any not implemented")
    /\ UNCHANGED <<mode, input, registry, tinput, fields, args, rest, writes,
                   values, keys, index, type_path, dargs, yielded, src>>

(***************************************************************************)
(* impl MapAccess for SingleMapDeserializer, driven by the registry-aware  *)
(* visitor: one key, its value, then a key again to see the map end.       *)
(***************************************************************************)
SingleNextKeySeed ==
    /\ pc = "dkey"
    /\ IF type_path = ""
       THEN /\ yielded' = Append(yielded, Yield("none", <<>>))
            /\ Finish("ok", "")
            /\ UNCHANGED type_path
       ELSE /\ yielded' = Append(yielded, Yield("type", type_path))
            /\ type_path' = ""
            /\ pc' = "dvalue"
            /\ UNCHANGED <<outcome, error>>
    /\ UNCHANGED <<mode, input, registry, tinput, fields, args, rest, writes,
                   values, keys, index, dargs, calls, src>>

\* The schema the value seed asks deserialize_struct for: the field list of
\* the registration whose type path the key named.
fields_of(regs, path) ==
    LET i == CHOOSE i \in 1..Len(regs) : regs[i].type_path = path
    IN  regs[i].fields

\* next_value_seed: seed.deserialize(TypedCliDeserializer::from_str(self.args))
SingleNextValueSeed ==
    /\ pc = "dvalue"
    /\ tinput' = dargs
    /\ fields' = fields_of(registry, yielded[Len(yielded)].text)
    /\ pc' = "typed_start"
    /\ UNCHANGED <<mode, input, registry, args, rest, writes, values, keys,
                   index, type_path, dargs, yielded, outcome, error, calls, src>>

Next ==
    \/ DeserializeStruct
    \/ TypedDeserializeAny
    \/ NextKeySeed
    \/ NextValueSeed
    \/ DeserializeMap
    \/ DynDeserializeAny
    \/ SingleNextKeySeed
    \/ SingleNextValueSeed

Spec == Init /\ [][Next]_vars


(***************************************************************************)
(* Vocabulary of the properties.                                           *)
(***************************************************************************)
Whitespace == {SP, TAB, NL}

Called(m) == \E i \in DOMAIN calls : calls[i] = m

SameIgnoringCase(a, b) ==
    /\ Len(a) = Len(b)
    /\ \A i \in 1..Len(a) : LowerChar(a[i]) = LowerChar(b[i])

KeyOnly(t) == t.dashed /\ ~t.has_value
Positional(t) == ~t.dashed
PositionalCount(toks) == Cardinality({i \in DOMAIN toks : Positional(toks[i])})

\* C1: more positional tokens than schema fields is reported to the caller as
\* an error value (an arity error), never as a crash.
C1_ArityErrorReturned ==
    (Called("struct") /\ PositionalCount(args) > Len(fields))
        => outcome = "err"

\* An opening delimiter at the start of a token, before any other quote or
\* parenthesis, that no later closing delimiter matches.
OpensUnterminated(s, open, close) ==
    \E i \in 1..Len(s) :
        /\ s[i] = open
        /\ i = 1 \/ s[i - 1] \in Whitespace
        /\ \A j \in 1..(i - 1) : s[j] \notin {DQ, LP}
        /\ \A j \in (i + 1)..Len(s) : s[j] # close

\* C2: a line with an unterminated quote or parenthesis fails with a grammar
\* error and produces no tokens.
C2_UnterminatedIsGrammarError ==
    (/\ Called("struct")
     /\ \/ OpensUnterminated(tinput, DQ, DQ)
        \/ OpensUnterminated(tinput, LP, RP))
        => (outcome = "err" /\ args = <<>>)

FirstRun(s) == Take(s, LenWhileNotIn(s, Whitespace))

NameMatches(reg, name) == reg.has_ident /\ SameIgnoringCase(reg.ident, name)

\* C3: a dynamic decode whose first token matches no registration returns a
\* type-not-found error to the caller.
C3_TypeNotFoundReturned ==
    (/\ mode = "dynamic"
     /\ Called("map")
     /\ \A i \in DOMAIN registry : ~NameMatches(registry[i], FirstRun(input)))
        => outcome = "err"

\* C4: a `--name` with nothing after it is a key with an absent value; its own
\* text is never bound as a field's value and takes no positional slot.
C4_KeyTextNeverBound ==
    \A i \in DOMAIN args :
        KeyOnly(args[i]) => i \notin DOMAIN writes

\* C5: a decode that returns success has tokenized the whole line, up to
\* trailing whitespace.
C5_AllOrNothing ==
    (Called("struct") /\ outcome = "ok")
        => \A i \in DOMAIN rest : rest[i] \in Whitespace

\* The calls the decoders do not implement: on the dynamic decoder (the first
\* call of a dynamic decode) all but map, on the typed decoder all but struct.
Unsupported(i) ==
    IF mode = "dynamic" /\ i = 1 THEN calls[i] # "map" ELSE calls[i] # "struct"

\* C10: an operation a decoder does not implement yields an error value of
\* its own kind.
C10_UnsupportedIsError ==
    \A i \in DOMAIN calls :
        Unsupported(i) => (outcome = "err" /\ error = "unsupported operation")


(***************************************************************************)
(* Dynamic resolution (C6).                                                *)
(***************************************************************************)
HasMatch(name) == \E i \in DOMAIN registry : NameMatches(registry[i], name)

FirstMatch(name) ==
    CHOOSE i \in DOMAIN registry :
        /\ NameMatches(registry[i], name)
        /\ \A j \in 1..(i - 1) : ~NameMatches(registry[j], name)

\* A dynamic decode whose type name is `name`: the registration chosen is the
\* first whose ident equals name ignoring case; the one key yielded is its
\* type path, yielded first and once; the value is the typed decode of the
\* text after the name under that registration's fields; and the same line
\* typed with the name in another letter case chooses the same type path.
ResolvesAs(name) ==
    (mode = "dynamic" /\ Called("map") /\ name # <<>> /\ HasMatch(name)) =>
        LET chosen == registry[FirstMatch(name)]
        IN  /\ error # "unwrap on None"
            /\ ~(outcome = "err" /\ calls = <<"map">>)
            /\ dargs = Drop(input, Len(name))
            /\ yielded = <<>> => type_path = chosen.type_path
            /\ yielded # <<>> => yielded[1] = Yield("type", chosen.type_path)
            /\ \A i \in DOMAIN yielded : yielded[i].kind = "type" => i = 1
            /\ Called("struct") => (tinput = dargs /\ fields = chosen.fields)
            /\ \A other \in TypeNames :
                   SameIgnoringCase(other, name)
                       => deserialize_map(other \o dargs, registry).type_path
                              = chosen.type_path

PositionalRank(i) == Cardinality({k \in 1..i : Positional(args[k])})

\* C7: the insert made for the j-th positional token writes that token's text
\* under schema field j, however many keyed tokens come before it.
C7_PositionalFillOrder ==
    \A i \in DOMAIN writes :
        Positional(args[i]) =>
            /\ PositionalRank(i) <= Len(fields)
            /\ writes[i] = [key |-> fields[PositionalRank(i)],
                            value |-> args[i].key]

\* Two positional tokens with a keyed token between them were bound.
C7_Witness ==
    \E h, i, k \in DOMAIN writes :
        /\ h < i /\ i < k
        /\ Positional(args[h])
        /\ args[i].dashed /\ args[i].has_value
        /\ Positional(args[k])

(***************************************************************************)
(* Order independence of keyed arguments (C8).                             *)
(***************************************************************************)
FieldSet == {fields[i] : i \in DOMAIN fields}
FieldIndex(f) == CHOOSE i \in DOMAIN fields : fields[i] = f
Identity(n) == [i \in 1..n |-> i]

\* The mapping the line `--field_i value_i` spells, whatever its order.
KeyedMapping == [f \in FieldSet |-> src.vals[FieldIndex(f)]]

YieldedKeys == {yielded[i].text : i \in {j \in DOMAIN yielded : yielded[j].kind = "key"}}

\* C8: a line of one keyed argument per field, in any order, resolves to the
\* map the canonical order resolves to, field i holding value i; and the
\* visitor is handed each key with that key's value, whatever the order in
\* which the map's entries are iterated.
C8_KeyedOrderIndependence ==
    (src.kind = "keyed" /\ Called("struct")) =>
        /\ outcome # "panic"
        /\ error # "Parse error"
        /\ values = KeyedMapping
        /\ values = parse_arguments(
                        KeyedLine(fields, Identity(Len(fields)), src.vals),
                        fields).map
        /\ \A i \in DOMAIN yielded :
               yielded[i].kind = "value" =>
                   /\ i > 1
                   /\ yielded[i - 1].kind = "key"
                   /\ yielded[i].text = KeyedMapping[yielded[i - 1].text]
        /\ outcome = "ok" => YieldedKeys = FieldSet

\* A permuted line was decoded to the end, its map iterated out of schema order.
C8_Witness ==
    /\ src.kind = "keyed"
    /\ outcome = "ok"
    /\ Len(fields) >= 2
    /\ src.perm # Identity(Len(fields))
    /\ keys # fields

(***************************************************************************)
(* Quoted and parenthesized tokens (C9).                                   *)
(***************************************************************************)
\* The tokens whose last slice is a value: positional ones and keyed ones
\* that have a value.
HoldsValue(t) == t.has_value \/ Positional(t)
ValueText(t) == IF t.has_value THEN t.value ELSE t.key
ValueEnd(t) == Len(tinput) - t.after
ValueStart(t) == ValueEnd(t) - Len(ValueText(t)) + 1

Closer(c) == IF c = DQ THEN DQ ELSE RP

\* The first closing delimiter after position p, 0 when there is none.
FirstCloser(p, close) ==
    IF \E q \in (p + 1)..Len(tinput) : tinput[q] = close
    THEN CHOOSE q \in (p + 1)..Len(tinput) :
             /\ tinput[q] = close
             /\ \A r \in (p + 1)..(q - 1) : tinput[r] # close
    ELSE 0

\* Token t is the input from its opening delimiter to the first closing one.
CapturedWhole(t) ==
    /\ SubSeq(tinput, ValueStart(t), ValueEnd(t)) = ValueText(t)
    /\ ValueEnd(t) = FirstCloser(ValueStart(t), Closer(tinput[ValueStart(t)]))

Delimited(t) ==
    /\ HoldsValue(t)
    /\ ValueText(t)[1] \in {DQ, LP}
    /\ FirstCloser(ValueStart(t), Closer(ValueText(t)[1])) # 0

\* The text between the delimiters is not empty, or whitespace or the end of
\* the line follows the closing delimiter.
InteriorOrBreak(t) ==
    LET q == FirstCloser(ValueStart(t), Closer(ValueText(t)[1]))
    IN  \/ q > ValueStart(t) + 1
        \/ q = Len(tinput)
        \/ tinput[q + 1] \in Whitespace

HasSpace(text) == \E j \in DOMAIN text : text[j] = SP

Resolved == Called("struct") /\ outcome # "panic" /\ error # "Parse error"

\* The field token i writes: its key when it carries a value, else the schema
\* field at its rank among the tokens that carry none.
FillRank(i) == Cardinality({k \in 1..i : ~args[k].has_value})
WriteTarget(i) ==
    IF args[i].has_value THEN args[i].key ELSE fields[FillRank(i)]

Writers(f) == {i \in DOMAIN args : WriteTarget(i) = f}
LastWriter(f) == CHOOSE i \in Writers(f) : \A k \in Writers(f) : k <= i

\* C11: once the tokens are resolved the map has one entry per field written,
\* iterated without repetition, and each entry holds the text of the last
\* token in input order that wrote the field, keyed or positional; the entries
\* of the other fields are those of their own last writers.
C11_LastWriteWins ==
    Resolved =>
        /\ DOMAIN values = {WriteTarget(i) : i \in DOMAIN args}
        /\ Len(keys) = Cardinality(DOMAIN values)
        /\ \A i, k \in DOMAIN keys : keys[i] = keys[k] => i = k
        /\ \A f \in DOMAIN values : values[f] = ValueText(args[LastWriter(f)])

\* One field was written by key, then by position, then by key again, with
\* three different texts, after another field had been written.
C11_Witness ==
    /\ Resolved
    /\ \E g, h, i, k \in DOMAIN args :
           /\ g < h /\ h < i /\ i < k
           /\ WriteTarget(g) # WriteTarget(h)
           /\ WriteTarget(h) = WriteTarget(i)
           /\ WriteTarget(i) = WriteTarget(k)
           /\ args[h].has_value /\ ~args[i].has_value /\ args[k].has_value
           /\ ValueText(args[h]) # ValueText(args[i])
           /\ ValueText(args[i]) # ValueText(args[k])
           /\ ValueText(args[h]) # ValueText(args[k])
           /\ values[WriteTarget(g)] = ValueText(args[g])

(***************************************************************************)
(* The map is consumed exactly once (C12).                                 *)
(***************************************************************************)
Yields(kind) == {i \in DOMAIN yielded : yielded[i].kind = kind}

\* The keys handed out before position i of the history.
KeysBefore(i) == {yielded[j].text : j \in {k \in Yields("key") : k < i}}

\* next_value_seed was called with no entry left.
ValueAfterExhaustion == error = "Value without a key"

\* C12: under alternating next-key and next-value calls no key is handed out
\* twice, every value handed out is the value of the key handed out just
\* before it, and a key is followed by nothing but its value; the cursor counts
\* the values asked for and never passes the number of entries; end-of-map is
\* reported only after every entry was handed out; and a next-value call made
\* with no entry left is an error that hands out nothing.
C12_ConsumedExactlyOnce ==
    /\ index <= Len(keys)
    /\ index = Cardinality(Yields("value")) + (IF error = "ron error" THEN 1 ELSE 0)
    /\ \A i \in Yields("key") :
           /\ yielded[i].text \in DOMAIN values
           /\ yielded[i].text = keys[Cardinality(KeysBefore(i)) + 1]
           /\ \A k \in Yields("key") : yielded[k].text = yielded[i].text => k = i
           /\ i < Len(yielded) => yielded[i + 1].kind = "value"
    /\ \A i \in Yields("value") :
           /\ i > 1
           /\ yielded[i - 1].kind = "key"
           /\ yielded[i].text = values[yielded[i - 1].text]
    /\ \A i \in Yields("none") :
           /\ KeysBefore(i) = DOMAIN values
           /\ Cardinality({k \in Yields("value") : k < i}) = Len(keys)
           /\ index = Len(keys)
    /\ (Resolved /\ outcome = "ok") => Yields("none") # {}
    /\ ValueAfterExhaustion =>
           /\ outcome = "err"
           /\ index = Len(keys)
           /\ Cardinality(Yields("value")) = Len(keys)
           /\ yielded # <<>> => yielded[Len(yielded)].kind # "key"

\* A map of two entries with different texts was read to its end, out of
\* schema order: key, value, key, value, end-of-map.
C12_Witness ==
    /\ mode = "typed"
    /\ outcome = "ok"
    /\ Len(keys) = 2
    /\ keys # fields
    /\ values[keys[1]] # values[keys[2]]
    /\ yielded = << Yield("key", keys[1]), Yield("value", values[keys[1]]),
                    Yield("key", keys[2]), Yield("value", values[keys[2]]),
                    Yield("none", <<>>) >>

\* The same map read to its last value, then asked for one value more.
C12_ExhaustedWitness ==
    /\ ValueAfterExhaustion
    /\ Len(keys) = 2
    /\ Len(yielded) = 4

====
